---- MODULE Spec2Model ----
(***************************************************************************)
(* The strategy cascades of the social-profile scraper:                    *)
(*   "ig"      scrapeInstagram of src/src/instagram.ts (IMPIT session      *)
(*             bootstrap, REST API, HTML of the bootstrap page),           *)
(*   "igRetry" scrapeInstagram of src/unnamed/part_001 (private API, one   *)
(*             retry on 429 with a fresh proxy, web page),                 *)
(*   "fb"      scrapeFacebook of src/src/facebook.ts (desktop page, mbasic *)
(*             page).                                                      *)
(* A network response is drawn by what the strategy's parsers recover from *)
(* it: the profile fields found, the posts found in document order, and    *)
(* whether it holds a character reference or a timestamp out of range.     *)
(***************************************************************************)
EXTENDS Integers, Sequences, FiniteSets, TLC

\* ------------------------------------------------------------------ bounds
MaxPosts == 2      \* posts a response can hold
MaxLimit == 3      \* largest postsLimit of a query
MaxCompetitors == 2  \* entries of input.competitors
MaxBlocks == 3     \* JSON blocks of a Facebook desktop page
MaxPieces == 4     \* pieces of text of an Instagram page
MaxText == 4       \* characters of a text over the whole alphabet
MaxNumeral == 6    \* characters of a text of digits, separators and suffixes

\* --------------------------------------------------------------- constants
Null == -1                 \* JS null in a numeric or text field
NoError == "null"          \* JS null in the error field
DesktopEnoughPosts == 2    \* facebook.ts: recent_posts.length >= 2
StatusOk == 200
StatusNotFound == 404
StatusRateLimited == 429
NetworkFailure == 0        \* fetch rejected: network error or timeout abort
NoProxy == 0               \* proxyUrl === null
FirstProxy == 1            \* the proxy URL the orchestrator hands in
YearAgo == 2               \* the last day more than 365 days before the run

Min(a, b) == IF a < b THEN a ELSE b

\* Array.prototype.slice(0, n) for n >= 0
Take(s, n) == SubSeq(s, 1, Min(n, Len(s)))

Variants == {"ig", "igRetry", "fb"}
Targets == {"page", "api", "desktop", "mbasic"}

\* The value a target reports for a field it exposes, and the first post url
\* of a target: distinct per target, so that the origin of a value is visible.
ValueOf(target) ==
  CASE target = "api" -> 10 [] target = "page" -> 20
    [] target = "desktop" -> 30 [] target = "mbasic" -> 40
UrlBase(target) == ValueOf(target)

\* Which profile fields a response exposes.
FieldNames == {"followers", "following", "posts_count", "bio"}
FieldSets ==
  { {}, {"followers"}, {"following"}, {"posts_count"}, {"bio"},
    {"followers", "bio"}, FieldNames }

Field(target, fields, name) == IF name \in fields THEN ValueOf(target) ELSE Null

\* The posts of a response in document order: urls base+1 .. base+n.
PostsOf(target, n) == [k \in 1..n |-> UrlBase(target) + k]

\* A fetched body.
\*   kind      "ok", "malformed" (not JSON), "badEntity" (a character
\*             reference beyond U+10FFFF in a decoded attribute), "login"
\*             (the login page served in place of the public page),
\*             "stalled" (the headers arrive, the body never completes)
\*   user      the JSON carries a user object
\*   badTimeAt index of the first post whose timestamp is beyond the Date
\*             range (0: none)
Body(target, kind, user, fields, n, badTimeAt) ==
  [kind |-> kind, user |-> user,
   followers |-> Field(target, fields, "followers"),
   following |-> Field(target, fields, "following"),
   posts_count |-> Field(target, fields, "posts_count"),
   bio |-> Field(target, fields, "bio"),
   posts |-> PostsOf(target, n), badTimeAt |-> badTimeAt]

EmptyBody(target, kind) == Body(target, kind, FALSE, {}, 0, 0)

\* The login page: html.includes('login_form') || html.includes('/login/').
\* It has no post and no follower count; its <title> is what extractBio
\* falls back to on the desktop page.
LoginPages(target) ==
  { Body(target, "login", FALSE, f, 0, 0) :
      f \in IF target = "desktop" THEN {{}, {"bio"}} ELSE {{}} }

LoginWalled(body) == body.kind = "login"

\* Bodies a target can serve. Facebook timestamps are matched as exactly ten
\* digits and never leave the Date range; Instagram ones are unbounded.
Bodies(target) ==
  LET timeFault(n) == IF target \in {"api", "page"} THEN 0..n ELSE {0}
      ok == { Body(target, "ok", target = "api", f, n, b) :
                f \in FieldSets, n \in 0..MaxPosts, b \in 0..MaxPosts }
  IN  { d \in ok : d.badTimeAt \in timeFault(Len(d.posts)) }
      \cup (IF target = "api"
              THEN {EmptyBody(target, "malformed"), EmptyBody(target, "ok")}
              ELSE {EmptyBody(target, "badEntity")} \cup LoginPages(target))
      \cup {EmptyBody(target, "stalled")}

Statuses == {NetworkFailure, StatusOk, StatusNotFound, StatusRateLimited}

\* A response: status, the cookies of its set-cookie headers, its body.
Responses(target) ==
  { [status |-> StatusOk, cookies |-> c, body |-> d] :
      c \in {"", "csrftoken=t"}, d \in Bodies(target) }
  \cup { [status |-> s, cookies |-> c, body |-> EmptyBody(target, "ok")] :
           s \in {StatusNotFound, StatusRateLimited}, c \in {"", "csrftoken=t"} }
  \cup { [status |-> NetworkFailure, cookies |-> "", body |-> EmptyBody(target, "ok")] }

\* a ?? b
Coalesce(a, b) == IF a # Null THEN a ELSE b

\* ---------------------------------------------------------------- results
ProfileResult(followers, following, posts_count, bio, posts, error) ==
  [followers |-> followers, following |-> following, posts_count |-> posts_count,
   bio |-> bio, recent_posts |-> posts, error |-> error]

Failed(error) == ProfileResult(Null, Null, Null, Null, <<>>, error)

HttpError(prefix, status) ==
  CASE status = StatusNotFound -> prefix \o "HTTP 404"
    [] status = StatusRateLimited -> prefix \o "HTTP 429"
    [] OTHER -> prefix \o "HTTP"

\* The message of the exception a failing fetch or parse throws.
Message(resp) ==
  IF resp.status = NetworkFailure THEN "fetch failed"
  ELSE IF resp.body.kind = "malformed" THEN "Unexpected token"
  ELSE IF resp.body.kind = "badEntity" THEN "Invalid code point"
  ELSE IF resp.body.kind = "stalled" THEN "The operation was aborted due to timeout"
  ELSE "Invalid time value"

\* new Date(ts * 1000).toISOString() throws RangeError on the post at
\* badTimeAt, which the extraction loop reaches when it lies within the limit.
TimeFault(body, limit) == body.badTimeAt > 0 /\ body.badTimeAt <= limit

\* String.fromCodePoint throws RangeError inside decodeHtmlEntities.
EntityFault(body) == body.kind = "badEntity"

\* fetch(..., { signal: AbortSignal.timeout(30_000) }): the signal stays armed
\* while the body is read, and response.text() / .json() rejects when it fires.
Aborted(body) == body.kind = "stalled"

\* instagram.ts: clearTimeout(timeout) runs as soon as impit.fetch resolves, so
\* nothing in this code ends the wait of resp.text() / resp.json() on a body
\* that never completes.
bodyReadHangs(resp) == resp.status = StatusOk /\ resp.body.kind = "stalled"


\* An optional value (T | null) is a set: {} is null, {v} is the value v.

\* ------------------------------------------- "ig": src/src/instagram.ts
\* bootstrapSession: the cookies and, on HTTP 200, the page; a rejected fetch
\* is caught and gives no cookie and no page.
bootstrapSession(resp) ==
  IF resp.status = NetworkFailure
    THEN [cookies |-> "", html |-> {}]
    ELSE [cookies |-> resp.cookies,
          html |-> IF resp.status = StatusOk THEN {resp.body} ELSE {}]

\* Mutant: the edges are not cut to postsLimit.
restApiPosts_NoSlice(body, postsLimit) == body.posts

\* edges.slice(0, postsLimit), one post per edge
restApiPosts(body, postsLimit) == Take(body.posts, postsLimit)

\* tryRestApi: null on 429, on any other non-200, on a body without a user
\* object and on every exception; else the profile and the first postsLimit posts.
tryRestApi(resp, postsLimit) ==
  IF resp.status = NetworkFailure THEN {}
  ELSE IF resp.status = StatusRateLimited THEN {}
  ELSE IF resp.status # StatusOk THEN {}
  ELSE IF resp.body.kind = "malformed" THEN {}
  ELSE IF ~resp.body.user THEN {}
  ELSE IF TimeFault(resp.body, postsLimit) THEN {}
  ELSE { ProfileResult(resp.body.followers, resp.body.following,
                       resp.body.posts_count, resp.body.bio,
                       restApiPosts(resp.body, postsLimit), NoError) }

\* extractPostsFromJson: one post per distinct shortcode until limit posts
extractPostsFromJson(html, limit) == Take(html.posts, limit)

\* extractFromHtml runs outside any try block: an exception of its parsers
\* leaves scrapeInstagram.
extractFromHtmlThrows(html, postsLimit) ==
  EntityFault(html) \/ TimeFault(html, postsLimit)

extractFromHtml(html, postsLimit) ==
  LET posts == extractPostsFromJson(html, postsLimit)
  IN  ProfileResult(html.followers, html.following, html.posts_count, html.bio,
        posts,
        IF Len(posts) = 0 /\ html.followers = Null
          THEN "Could not extract data from profile page" ELSE NoError)

\* if (apiResult && apiResult.recent_posts.length > 0) return apiResult
apiHalts(apiResult) == \E r \in apiResult : Len(r.recent_posts) > 0

\* if (webResult.recent_posts.length > 0 || webResult.followers !== null)
webUsable(webResult) ==
  \E r \in webResult : Len(r.recent_posts) > 0 \/ r.followers # Null

\* Step 3 and the final return of scrapeInstagram.
instagramReturn(webResult) ==
  IF webUsable(webResult) THEN webResult
  ELSE { Failed("All Instagram strategies failed") }

\* ------------------------------------------- "fb": src/src/facebook.ts
\* posts.slice(0, limit) of the ranked posts of the document
extractPostsFromDesktopJson(html, limit) == Take(html.posts, limit)

\* the story-link loop stops at limit posts
extractPostsFromMbasic(html, limit) == Take(html.posts, limit)

\* tryDesktopPage never returns null: a failure is a record carrying the error.
tryDesktopPage(resp, postsLimit) ==
  IF resp.status = NetworkFailure THEN Failed(Message(resp))
  ELSE IF resp.status # StatusOk THEN Failed(HttpError("", resp.status))
  ELSE IF EntityFault(resp.body) \/ Aborted(resp.body) THEN Failed(Message(resp))
  ELSE ProfileResult(resp.body.followers, Null, Null, resp.body.bio,
                     extractPostsFromDesktopJson(resp.body, postsLimit), NoError)

tryMbasicPage(resp, postsLimit) ==
  IF resp.status = NetworkFailure THEN Failed("mbasic: " \o Message(resp))
  ELSE IF resp.status # StatusOk THEN Failed(HttpError("mbasic ", resp.status))
  ELSE IF EntityFault(resp.body) \/ Aborted(resp.body)
    THEN Failed("mbasic: " \o Message(resp))
  ELSE ProfileResult(resp.body.followers, Null, Null, Null,
                     extractPostsFromMbasic(resp.body, postsLimit), NoError)

\* Mutant: a single desktop post already ends the cascade.
desktopHalts_AnyPost(desktopResult) ==
  \E r \in desktopResult : Len(r.recent_posts) >= 1

\* if (desktopResult && desktopResult.recent_posts.length >= 2) return desktopResult
desktopHalts(desktopResult) ==
  \E r \in desktopResult : Len(r.recent_posts) >= DesktopEnoughPosts

\* Mutant: the merge appends the mbasic posts to the desktop posts.
facebookReturn_Mixed(desktopResult, mbasicResult) ==
  IF \E m \in mbasicResult : Len(m.recent_posts) > 0
    THEN { ProfileResult(Coalesce(d.followers, m.followers), Null, Null,
                         Coalesce(d.bio, m.bio),
                         d.recent_posts \o m.recent_posts, NoError) :
             d \in desktopResult, m \in mbasicResult }
  ELSE desktopResult

\* The merge and the final return of scrapeFacebook.
facebookReturn(desktopResult, mbasicResult) ==
  IF \E m \in mbasicResult : Len(m.recent_posts) > 0
    THEN LET m == CHOOSE x \in mbasicResult : TRUE
             dFollowers == IF desktopResult = {} THEN Null
                           ELSE (CHOOSE d \in desktopResult : TRUE).followers
             dBio == IF desktopResult = {} THEN Null
                     ELSE (CHOOSE d \in desktopResult : TRUE).bio
         IN  { ProfileResult(Coalesce(dFollowers, m.followers), Null, Null,
                             Coalesce(dBio, m.bio), m.recent_posts, NoError) }
  ELSE IF desktopResult # {} THEN desktopResult
  ELSE { Failed("All Facebook strategies failed") }

\* -------------------------------- "igRetry": src/unnamed/part_001
tryPrivateApi(resp, postsLimit) ==
  IF resp.status = NetworkFailure THEN Failed(Message(resp))
  ELSE IF resp.status # StatusOk THEN Failed(HttpError("", resp.status))
  ELSE IF resp.body.kind = "malformed" \/ Aborted(resp.body) THEN Failed(Message(resp))
  ELSE IF ~resp.body.user THEN Failed("No user data in API response")
  ELSE IF TimeFault(resp.body, postsLimit) THEN Failed(Message(resp))
  ELSE ProfileResult(resp.body.followers, resp.body.following,
                     resp.body.posts_count, resp.body.bio,
                     Take(resp.body.posts, postsLimit), NoError)

extractPostsFromHtml(html, limit) == Take(html.posts, limit)

tryWebPage(resp, postsLimit) ==
  IF resp.status = NetworkFailure THEN Failed("Web: " \o Message(resp))
  ELSE IF resp.status # StatusOk THEN Failed(HttpError("Web ", resp.status))
  ELSE IF TimeFault(resp.body, postsLimit) \/ EntityFault(resp.body)
          \/ Aborted(resp.body)
    THEN Failed("Web: " \o Message(resp))
  ELSE ProfileResult(resp.body.followers, resp.body.following,
                     resp.body.posts_count, resp.body.bio,
                     extractPostsFromHtml(resp.body, postsLimit), NoError)

\* if (r && !r.error && r.recent_posts.length > 0) return r
privateApiHalts(result) ==
  \E r \in result : r.error = NoError /\ Len(r.recent_posts) > 0

\* apiResult?.error?.includes('429') && proxyUrl
shouldRetry(apiResult, proxyUrl) ==
  /\ \E r \in apiResult : r.error \in {"HTTP 429"}
  /\ proxyUrl # NoProxy

\* Mutant: the retry keeps the proxy URL it was given.
getFreshProxyUrl_Reuse(outcome, currentProxyUrl) == currentProxyUrl

\* getFreshProxyUrl: a new session url, or the current one when the proxy
\* configuration throws or gives none.
ProxyOutcomes == {"fresh", "none", "throws"}
getFreshProxyUrl(outcome, currentProxyUrl) ==
  IF outcome = "fresh" THEN currentProxyUrl + 1 ELSE currentProxyUrl

\* The returns of scrapeInstagram after the web page strategy.
retryVariantReturn(apiResult, webResult) ==
  IF \E w \in webResult : Len(w.recent_posts) > 0 THEN webResult
  ELSE IF \E w \in webResult : w.followers # Null
    THEN { [w EXCEPT !.error =
              IF Len(w.recent_posts) = 0
                THEN "Profile metrics OK but no post engagement data"
                ELSE NoError] : w \in webResult }
  ELSE IF apiResult # {} THEN apiResult
  ELSE IF webResult # {} THEN webResult
  ELSE { Failed("All strategies failed") }


\* ------------------------------------------------------------------ state
VARIABLES
  variant,        \* which scrape function runs
  postsLimit,     \* its postsLimit argument
  proxyUrl,       \* its proxyUrl argument
  pc,             \* the statement the function is at
  cookies, html,  \* what bootstrapSession returned
  apiResult, retryResult, webResult, desktopResult, mbasicResult,
  proxyOutcome,   \* how Actor.createProxyConfiguration/newUrl ended ({}: not called)
  requests,       \* the network requests made, in order
  invoked,        \* the strategy attempts made, in order
  returned,       \* the record the function returned ({}: none yet)
  thrown,         \* an exception left the function
  \* the orchestrator loop (src/unnamed/part_003, part_002)
  competitors,    \* input.competitors
  compIndex,      \* the competitor the for loop is at
  mainPc,         \* the statement the loop is at
  calls,          \* the scrape calls made, in order, with how each ended
  dataset,        \* the items Actor.pushData stored, in order
  \* one run of a post extractor on one document
  extractor,      \* which extractor runs
  doc,            \* its html argument, as the anchors its patterns match
  limit,          \* its limit argument
  extracted,      \* the posts it returned ({}: not run yet)
  \* one call of a text helper
  helper,         \* which helper runs
  text,           \* its text argument, a sequence of characters
  output,         \* what it returned ({}: not called yet)
  \* the loop with each scrape call unfolded into its fetches
  flightPc,       \* the await the program is at
  inFlight,       \* the fetches started and not yet settled
  sent,           \* the fetches started, in order
  \* the browser-context loop (src/unnamed/part_003:1-225)
  browserPc,      \* the statement the loop is at
  openContexts,   \* the browser contexts created and not closed
  created         \* the per-profile contexts created, in order

results == <<apiResult, retryResult, webResult, desktopResult, mbasicResult>>
cascadeVars == <<variant, postsLimit, proxyUrl, pc, cookies, html, apiResult,
                 retryResult, webResult, desktopResult, mbasicResult, proxyOutcome,
                 requests, invoked, returned, thrown>>
mainVars == <<competitors, compIndex, mainPc, calls, dataset>>
extractVars == <<extractor, doc, limit, extracted>>
helperVars == <<helper, text, output>>
flightVars == <<flightPc, inFlight, sent>>
browserVars == <<browserPc, openContexts, created>>
vars == <<cascadeVars, mainVars, extractVars, helperVars, flightVars, browserVars>>

StartOf(v) ==
  CASE v = "ig" -> "bootstrap" [] v = "fb" -> "desktop" [] v = "igRetry" -> "privateApi"

\* The parts of the state a specification does not exercise stay as they are
\* before the corresponding code starts.
MainIdle ==
  /\ competitors = <<>> /\ compIndex = 1 /\ mainPc = "off"
  /\ calls = <<>> /\ dataset = <<>>

ExtractIdle ==
  /\ extractor = "none" /\ doc = <<>> /\ limit = 0 /\ extracted = {}

HelperIdle ==
  /\ helper = "none" /\ text = <<>> /\ output = {}

FlightIdle ==
  /\ flightPc = "off" /\ inFlight = {} /\ sent = <<>>

BrowserIdle ==
  /\ browserPc = "off" /\ openContexts = {} /\ created = <<>>

CascadeIdle ==
  /\ variant = "ig" /\ postsLimit = 0 /\ proxyUrl = NoProxy /\ pc = "off"
  /\ cookies = "" /\ html = {}
  /\ apiResult = {} /\ retryResult = {} /\ webResult = {}
  /\ desktopResult = {} /\ mbasicResult = {}
  /\ proxyOutcome = {} /\ requests = <<>> /\ invoked = <<>>
  /\ returned = {} /\ thrown = FALSE

Init ==
  /\ MainIdle /\ ExtractIdle /\ HelperIdle /\ FlightIdle /\ BrowserIdle
  /\ variant \in Variants
  /\ postsLimit \in 0..MaxLimit
  /\ proxyUrl \in {NoProxy, FirstProxy}
  /\ pc = StartOf(variant)
  /\ cookies = ""
  /\ html = {}
  /\ apiResult = {} /\ retryResult = {} /\ webResult = {}
  /\ desktopResult = {} /\ mbasicResult = {}
  /\ proxyOutcome = {}
  /\ requests = <<>>
  /\ invoked = <<>>
  /\ returned = {}
  /\ thrown = FALSE

\* Mutant: every fetch goes to the REST API endpoint.
Request_AlwaysApi(target, proxy) == [target |-> "api", proxy |-> proxy]

Request(target, proxy) == [target |-> target, proxy |-> proxy]
Attempt(strategy, proxy, status, loginWall) ==
  [strategy |-> strategy, proxy |-> proxy, status |-> status, loginWall |-> loginWall]

\* ---- scrapeInstagram, src/src/instagram.ts
\* Step 1: const { cookies, html } = await bootstrapSession(impit, cleanHandle)
IgBootstrap ==
  /\ pc = "bootstrap"
  /\ \E resp \in Responses("page") :
       IF bodyReadHangs(resp)
         THEN pc' = "hung" /\ UNCHANGED <<cookies, html>>
         ELSE /\ cookies' = bootstrapSession(resp).cookies
              /\ html' = bootstrapSession(resp).html
              /\ pc' = IF bootstrapSession(resp).cookies # ""
                         THEN "restApi" ELSE "html"
  /\ requests' = Append(requests, Request("page", proxyUrl))
  /\ UNCHANGED <<mainVars, extractVars, helperVars, flightVars, browserVars, variant, postsLimit, proxyUrl, results, proxyOutcome,
                 invoked, returned, thrown>>

\* Step 2: tryRestApi with the session cookies, returned when it has posts.
IgRestApi ==
  /\ pc = "restApi"
  /\ \E resp \in Responses("api") :
       /\ invoked' = Append(invoked, Attempt("api", proxyUrl, resp.status, LoginWalled(resp.body)))
       /\ IF bodyReadHangs(resp)
            THEN pc' = "hung" /\ UNCHANGED <<apiResult, returned>>
            ELSE /\ apiResult' = tryRestApi(resp, postsLimit)
                 /\ IF apiHalts(tryRestApi(resp, postsLimit))
                      THEN returned' = tryRestApi(resp, postsLimit) /\ pc' = "done"
                      ELSE returned' = returned /\ pc' = "html"
  /\ requests' = Append(requests, Request("api", proxyUrl))
  /\ UNCHANGED <<mainVars, extractVars, helperVars, flightVars, browserVars, variant, postsLimit, proxyUrl, cookies, html, retryResult,
                 webResult, desktopResult, mbasicResult, proxyOutcome, thrown>>

\* Step 3: extractFromHtml on the bootstrap page, and the final return.
IgHtml ==
  /\ pc = "html"
  /\ pc' = "done"
  /\ IF html = {}
       THEN /\ returned' = instagramReturn({})
            /\ UNCHANGED <<webResult, invoked, thrown>>
       ELSE LET page == CHOOSE h \in html : TRUE IN
            /\ invoked' = Append(invoked, Attempt("html", proxyUrl, StatusOk, LoginWalled(page)))
            /\ IF extractFromHtmlThrows(page, postsLimit)
                 THEN thrown' = TRUE /\ UNCHANGED <<webResult, returned>>
                 ELSE /\ webResult' = {extractFromHtml(page, postsLimit)}
                      /\ returned' = instagramReturn({extractFromHtml(page, postsLimit)})
                      /\ thrown' = thrown
  /\ UNCHANGED <<mainVars, extractVars, helperVars, flightVars, browserVars, variant, postsLimit, proxyUrl, cookies, html, apiResult,
                 retryResult, desktopResult, mbasicResult, proxyOutcome, requests>>

\* ---- scrapeFacebook, src/src/facebook.ts
\* Strategy 1: tryDesktopPage, returned when it has two posts or more.
FbDesktop ==
  /\ pc = "desktop"
  /\ \E resp \in Responses("desktop") :
       /\ desktopResult' = {tryDesktopPage(resp, postsLimit)}
       /\ invoked' = Append(invoked, Attempt("desktop", proxyUrl, resp.status, LoginWalled(resp.body)))
       /\ IF desktopHalts({tryDesktopPage(resp, postsLimit)})
            THEN returned' = {tryDesktopPage(resp, postsLimit)} /\ pc' = "done"
            ELSE returned' = returned /\ pc' = "mbasic"
  /\ requests' = Append(requests, Request("desktop", proxyUrl))
  /\ UNCHANGED <<mainVars, extractVars, helperVars, flightVars, browserVars, variant, postsLimit, proxyUrl, cookies, html, apiResult,
                 retryResult, webResult, mbasicResult, proxyOutcome, thrown>>

\* Strategy 2: tryMbasicPage, then the merge and the final return.
FbMbasic ==
  /\ pc = "mbasic"
  /\ \E resp \in Responses("mbasic") :
       /\ mbasicResult' = {tryMbasicPage(resp, postsLimit)}
       /\ invoked' = Append(invoked, Attempt("mbasic", proxyUrl, resp.status, LoginWalled(resp.body)))
       /\ returned' = facebookReturn(desktopResult, {tryMbasicPage(resp, postsLimit)})
  /\ pc' = "done"
  /\ requests' = Append(requests, Request("mbasic", proxyUrl))
  /\ UNCHANGED <<mainVars, extractVars, helperVars, flightVars, browserVars, variant, postsLimit, proxyUrl, cookies, html, apiResult,
                 retryResult, webResult, desktopResult, proxyOutcome, thrown>>

\* ---- scrapeInstagram, src/unnamed/part_001
\* Strategy 1: tryPrivateApi (session cookie fetch, then the API call).
VPrivateApi ==
  /\ pc = "privateApi"
  /\ \E resp \in Responses("api") :
       /\ apiResult' = {tryPrivateApi(resp, postsLimit)}
       /\ invoked' = Append(invoked, Attempt("api", proxyUrl, resp.status, LoginWalled(resp.body)))
       /\ IF privateApiHalts({tryPrivateApi(resp, postsLimit)})
            THEN returned' = {tryPrivateApi(resp, postsLimit)} /\ pc' = "done"
            ELSE /\ returned' = returned
                 /\ pc' = IF shouldRetry({tryPrivateApi(resp, postsLimit)}, proxyUrl)
                            THEN "retry" ELSE "webPage"
  /\ requests' = requests \o <<Request("page", proxyUrl), Request("api", proxyUrl)>>
  /\ UNCHANGED <<mainVars, extractVars, helperVars, flightVars, browserVars, variant, postsLimit, proxyUrl, cookies, html, retryResult,
                 webResult, desktopResult, mbasicResult, proxyOutcome, thrown>>

\* Strategy 1b: sleep(5000), getFreshProxyUrl, tryPrivateApi once more.
VRetry ==
  /\ pc = "retry"
  /\ \E outcome \in ProxyOutcomes, resp \in Responses("api") :
       LET freshProxyUrl == getFreshProxyUrl(outcome, proxyUrl) IN
       /\ proxyOutcome' = {outcome}
       /\ retryResult' = {tryPrivateApi(resp, postsLimit)}
       /\ invoked' = Append(invoked, Attempt("api", freshProxyUrl, resp.status, LoginWalled(resp.body)))
       /\ requests' = requests \o <<Request("page", freshProxyUrl),
                                    Request("api", freshProxyUrl)>>
       /\ IF privateApiHalts({tryPrivateApi(resp, postsLimit)})
            THEN returned' = {tryPrivateApi(resp, postsLimit)} /\ pc' = "done"
            ELSE returned' = returned /\ pc' = "webPage"
  /\ UNCHANGED <<mainVars, extractVars, helperVars, flightVars, browserVars, variant, postsLimit, proxyUrl, cookies, html, apiResult,
                 webResult, desktopResult, mbasicResult, thrown>>

\* Strategy 2: tryWebPage, then the final returns.
VWebPage ==
  /\ pc = "webPage"
  /\ \E resp \in Responses("page") :
       /\ webResult' = {tryWebPage(resp, postsLimit)}
       /\ invoked' = Append(invoked, Attempt("web", proxyUrl, resp.status, LoginWalled(resp.body)))
       /\ returned' = retryVariantReturn(apiResult, {tryWebPage(resp, postsLimit)})
  /\ pc' = "done"
  /\ requests' = Append(requests, Request("page", proxyUrl))
  /\ UNCHANGED <<mainVars, extractVars, helperVars, flightVars, browserVars, variant, postsLimit, proxyUrl, cookies, html, apiResult,
                 retryResult, desktopResult, mbasicResult, proxyOutcome, thrown>>

Next ==
  \/ IgBootstrap \/ IgRestApi \/ IgHtml
  \/ FbDesktop \/ FbMbasic
  \/ VPrivateApi \/ VRetry \/ VWebPage

Spec == Init /\ [][Next]_vars

\* Each await of a pending step is resumed by the event loop.
FairSpec == Spec /\ WF_vars(Next)


\* ------------------------- the orchestrator loop: src/unnamed/part_003
\* for (const comp of input.competitors): the Instagram block, then the
\* Facebook block. A scrape call is drawn by how it ends; Actor.pushData is a
\* call to the dataset storage, which stores the item or rejects.
Platforms == {"instagram", "facebook"}
NoHandle == ""             \* comp.instagram / comp.facebook missing or empty

\* input.competitors: at least one entry (the input check exits otherwise).
Competitor(name, instagram, facebook) ==
  [name |-> name, instagram |-> instagram, facebook |-> facebook]

CompetitorLists ==
  UNION { [1..n -> { Competitor(name, ig, fb) :
                       name \in 1..MaxCompetitors,
                       ig \in {NoHandle, "h"}, fb \in {NoHandle, "h"} }] :
          n \in 1..MaxCompetitors }

\* How a scrape call ends: a record, or (scrapeInstagram only) an exception.
ScrapeOutcomes(platform) ==
  { [threw |-> FALSE, result |-> r] :
      r \in { ProfileResult(ValueOf("api"), Null, Null, Null, PostsOf("api", 1), NoError),
              Failed("All strategies failed") } }
  \cup (IF platform = "instagram"
          THEN { [threw |-> TRUE, result |-> Failed("RangeError: Invalid time value")] }
          ELSE {})

PushOutcomes == {"stored", "rejected"}

\* { customer_slug, name, platform, scraped_at, ...result }
Item(comp, platform, result) ==
  [name |-> comp.name, platform |-> platform, followers |-> result.followers,
   following |-> result.following, posts_count |-> result.posts_count,
   bio |-> result.bio, recent_posts |-> result.recent_posts, error |-> result.error]

\* One try/catch block of the loop: pushData(data) stands inside the try, so
\* its rejection is caught like an exception of the scrape call; the
\* pushData of the catch block is not guarded.
scrapeBlock(comp, platform, outcome, push, pushInCatch) ==
  IF ~outcome.threw /\ push = "stored"
    THEN [items |-> <<Item(comp, platform, outcome.result)>>, crashed |-> FALSE]
  ELSE LET err == IF outcome.threw THEN outcome.result.error
                  ELSE "Error: pushData failed"
       IN  IF pushInCatch = "stored"
             THEN [items |-> <<Item(comp, platform, Failed(err))>>, crashed |-> FALSE]
             ELSE [items |-> <<>>, crashed |-> TRUE]

Call(comp, platform, outcome) ==
  [name |-> comp.name, platform |-> platform, threw |-> outcome.threw,
   result |-> outcome.result]

InitMain ==
  /\ CascadeIdle /\ ExtractIdle /\ HelperIdle /\ FlightIdle /\ BrowserIdle
  /\ competitors \in CompetitorLists
  /\ compIndex = 1
  /\ mainPc = "instagram"
  /\ calls = <<>>
  /\ dataset = <<>>

\* if (comp.instagram) { try { scrapeInstagram; pushData } catch { pushData } }
MainInstagram ==
  /\ mainPc = "instagram"
  /\ LET comp == competitors[compIndex] IN
     IF comp.instagram = NoHandle
       THEN mainPc' = "facebook" /\ UNCHANGED <<calls, dataset>>
       ELSE \E outcome \in ScrapeOutcomes("instagram"),
               push \in PushOutcomes, pushInCatch \in PushOutcomes :
              LET b == scrapeBlock(comp, "instagram", outcome, push, pushInCatch) IN
              /\ calls' = Append(calls, Call(comp, "instagram", outcome))
              /\ dataset' = dataset \o b.items
              /\ mainPc' = IF b.crashed THEN "crashed" ELSE "facebook"
  /\ UNCHANGED <<competitors, compIndex, cascadeVars, extractVars, helperVars, flightVars, browserVars>>

\* if (comp.facebook) { try { scrapeFacebook; pushData } catch { pushData } },
\* then the next competitor, or Actor.exit() after the last.
MainFacebook ==
  /\ mainPc = "facebook"
  /\ LET comp == competitors[compIndex]
         after == IF compIndex = Len(competitors) THEN "exit" ELSE "instagram"
     IN
     IF comp.facebook = NoHandle
       THEN /\ mainPc' = after /\ compIndex' = compIndex + 1
            /\ UNCHANGED <<calls, dataset>>
       ELSE \E outcome \in ScrapeOutcomes("facebook"),
               push \in PushOutcomes, pushInCatch \in PushOutcomes :
              LET b == scrapeBlock(comp, "facebook", outcome, push, pushInCatch) IN
              /\ calls' = Append(calls, Call(comp, "facebook", outcome))
              /\ dataset' = dataset \o b.items
              /\ mainPc' = IF b.crashed THEN "crashed" ELSE after
              /\ compIndex' = IF b.crashed THEN compIndex ELSE compIndex + 1
  /\ UNCHANGED <<competitors, cascadeVars, extractVars, helperVars, flightVars, browserVars>>

NextMain == MainInstagram \/ MainFacebook

SpecMain == InitMain /\ [][NextMain]_vars

\* ---- the same loop with each scrape call unfolded into its fetches
\* (part_003:285-389 with scrapeInstagram of instagram.ts and scrapeFacebook
\* of facebook.ts). A fetch is in flight from the call of fetch until the
\* awaited response, and the body when the code reads it, has arrived or the
\* fetch has failed or was aborted.
Fetch(comp, target) == [comp |-> comp, target |-> target]

\* Mutant: the fetch is not awaited and the function goes on.
awaitFetch_NotAwaited(wait, after) == after

\* const resp = await impit.fetch(...) / await fetchWithProxy(...): the
\* function stays at the await until the fetch settles
awaitFetch(wait, after) == wait

InitFlight ==
  /\ CascadeIdle /\ ExtractIdle /\ HelperIdle /\ BrowserIdle
  /\ mainPc = "off" /\ calls = <<>> /\ dataset = <<>>
  /\ competitors \in CompetitorLists
  /\ compIndex = 1
  /\ flightPc = "instagram"
  /\ inFlight = {}
  /\ sent = <<>>

\* for (const comp of competitors): the next one, or Actor.exit()
afterFacebook == IF compIndex = Len(competitors) THEN "exit" ELSE "instagram"

Send(at, target, wait, after) ==
  /\ flightPc = at
  /\ inFlight' = inFlight \cup {Fetch(compIndex, target)}
  /\ sent' = Append(sent, Fetch(compIndex, target))
  /\ flightPc' = awaitFetch(wait, after)
  /\ UNCHANGED compIndex

Settle(wait, target) ==
  /\ flightPc = wait
  /\ inFlight' = inFlight \ {Fetch(compIndex, target)}
  /\ UNCHANGED sent

\* if (comp.instagram) ... / if (comp.facebook) ... with no handle
FlightSkip ==
  /\ \/ /\ flightPc = "instagram" /\ competitors[compIndex].instagram = NoHandle
        /\ flightPc' = "facebook" /\ UNCHANGED compIndex
     \/ /\ flightPc = "facebook" /\ competitors[compIndex].facebook = NoHandle
        /\ flightPc' = afterFacebook /\ compIndex' = compIndex + 1
  /\ UNCHANGED <<competitors, inFlight, sent, cascadeVars, extractVars, helperVars, browserVars>>
  /\ UNCHANGED <<mainPc, calls, dataset>>

\* bootstrapSession: impit.fetch of the profile page
IgSendBootstrap ==
  /\ flightPc = "instagram"
  /\ competitors[compIndex].instagram # NoHandle
  /\ Send("instagram", "page", "bootstrapWait", "restApi")
  /\ UNCHANGED <<competitors, cascadeVars, extractVars, helperVars, browserVars, mainPc, calls, dataset>>

\* the fetch settles: with cookies the REST API is next, without them the
\* call returns from the page it has, or with the error
IgSettleBootstrap ==
  /\ Settle("bootstrapWait", "page")
  /\ \E gotCookies \in BOOLEAN :
       flightPc' = IF gotCookies THEN "restApi" ELSE "facebook"
  /\ UNCHANGED <<competitors, compIndex, cascadeVars, extractVars, helperVars, browserVars>>
  /\ UNCHANGED <<mainPc, calls, dataset>>

\* tryRestApi: impit.fetch of web_profile_info
IgSendRestApi ==
  /\ Send("restApi", "api", "restApiWait", "facebook")
  /\ UNCHANGED <<competitors, cascadeVars, extractVars, helperVars, browserVars, mainPc, calls, dataset>>

IgSettleRestApi ==
  /\ Settle("restApiWait", "api")
  /\ flightPc' = "facebook"
  /\ UNCHANGED <<competitors, compIndex, cascadeVars, extractVars, helperVars, browserVars>>
  /\ UNCHANGED <<mainPc, calls, dataset>>

\* tryDesktopPage: fetchWithProxy of www.facebook.com
FbSendDesktop ==
  /\ flightPc = "facebook"
  /\ competitors[compIndex].facebook # NoHandle
  /\ Send("facebook", "desktop", "desktopWait", "mbasic")
  /\ UNCHANGED <<competitors, cascadeVars, extractVars, helperVars, browserVars, mainPc, calls, dataset>>

\* the desktop result halts the cascade, or tryMbasicPage is next
FbSettleDesktop ==
  /\ Settle("desktopWait", "desktop")
  /\ \E halts \in BOOLEAN :
       /\ flightPc' = IF halts THEN afterFacebook ELSE "mbasic"
       /\ compIndex' = IF halts THEN compIndex + 1 ELSE compIndex
  /\ UNCHANGED <<competitors, cascadeVars, extractVars, helperVars, browserVars, mainPc, calls, dataset>>

\* tryMbasicPage: fetchWithProxy of mbasic.facebook.com
FbSendMbasic ==
  /\ Send("mbasic", "mbasic", "mbasicWait", afterFacebook)
  /\ UNCHANGED <<competitors, cascadeVars, extractVars, helperVars, browserVars, mainPc, calls, dataset>>

FbSettleMbasic ==
  /\ Settle("mbasicWait", "mbasic")
  /\ flightPc' = afterFacebook
  /\ compIndex' = compIndex + 1
  /\ UNCHANGED <<competitors, cascadeVars, extractVars, helperVars, browserVars, mainPc, calls, dataset>>

NextFlight ==
  \/ FlightSkip
  \/ IgSendBootstrap \/ IgSettleBootstrap \/ IgSendRestApi \/ IgSettleRestApi
  \/ FbSendDesktop \/ FbSettleDesktop \/ FbSendMbasic \/ FbSettleMbasic

SpecFlight == InitFlight /\ [][NextFlight]_vars


\* ---------------------------------------------------- the post extractors
\* A document is drawn as the sequence of anchors the extractor's pattern
\* matches in it, in document order, each with what the extractor's other
\* patterns find in the window around it. Dates are day numbers; a larger
\* number is a later day.
NoMediaType == "null"      \* media_type: null
NoText == 0                \* no text found, or a text below the length floor
Today == 2 * YearAgo       \* Date.now(): as many days before the limit as after
Dates == 1..(Today + 1)    \* the last one is a day after the run
Future(date) == date > Today
Keys == 1..MaxBlocks       \* distinct shortcodes, distinct caption prefixes

Post(url, caption_snippet, likes, comments, posted_at, media_type) ==
  [url |-> url, caption_snippet |-> caption_snippet, likes |-> likes,
   comments |-> comments, posted_at |-> posted_at, media_type |-> media_type]

\* All sequences over S of length at most n.
SeqsUpTo(S, n) == UNION { [1..k -> S] : k \in 0..n }

\* Mutant: the loops run while posts.length <= limit.
moreWanted_OneMore(posts, lim) == Len(posts) <= lim

\* ... && posts.length < limit
moreWanted(posts, lim) == Len(posts) < lim

\* Mutant: no anchor value is ever taken as seen before.
alreadySeen_Never(seen, key) == FALSE

\* if (seen.has(shortcode)) continue / if (seen.has(dedupeKey)) continue
alreadySeen(seen, key) == key \in seen

\* ---- tryRestApi, the loop over user.edge_owner_to_timeline_media.edges
\* An edge: node present or not; the node's like count, timestamp and
\* is_video flag, each present or not.
Edge(node, shortcode, likes, taken_at_timestamp, is_video) ==
  [node |-> node, shortcode |-> shortcode, likes |-> likes,
   taken_at_timestamp |-> taken_at_timestamp, is_video |-> is_video]

Flags == {"absent", "true", "false"}

PlainEdges ==
  { Edge(TRUE, k, Null, t, "absent") : k \in Keys, t \in {Null} \cup Dates }
  \cup { Edge(FALSE, 0, Null, Null, "absent") }

DetailedEdges ==
  { Edge(TRUE, 1, l, t, v) : l \in {Null, 0, 1}, t \in {Null, 1}, v \in Flags }

restApiNodePost(node) ==
  Post(node.shortcode, NoText, node.likes, Null, node.taken_at_timestamp,
       IF node.is_video = "true" THEN "video" ELSE "image")

\* for (const edge of edges.slice(0, postsLimit)) { if (!node) continue; push }
restApiEdgePosts(edges, lim) ==
  LET kept == SelectSeq(Take(edges, lim), LAMBDA e : e.node)
  IN  [i \in 1..Len(kept) |-> restApiNodePost(kept[i])]

\* ---- extractPostsFromJson (instagram.ts): "shortcode" anchors
ShortcodeAnchor(shortcode, likes, timestamp, isVideo) ==
  [shortcode |-> shortcode, likes |-> likes, timestamp |-> timestamp,
   isVideo |-> isVideo]

PlainShortcodeAnchors ==
  { ShortcodeAnchor(k, Null, t, "absent") : k \in Keys, t \in {Null} \cup Dates }

DetailedShortcodeAnchors ==
  { ShortcodeAnchor(1, l, t, v) : l \in {Null, 0, 1}, t \in {Null, 1}, v \in Flags }

shortcodePost(a) ==
  Post(a.shortcode, NoText, a.likes, Null, a.timestamp,
       IF a.isVideo = "true" THEN "video" ELSE "image")

RECURSIVE shortcodeLoop(_, _, _, _, _)
shortcodeLoop(anchors, i, lim, seen, posts) ==
  IF i > Len(anchors) \/ ~moreWanted(posts, lim) THEN posts
  ELSE IF alreadySeen(seen, anchors[i].shortcode)
    THEN shortcodeLoop(anchors, i + 1, lim, seen, posts)
  ELSE shortcodeLoop(anchors, i + 1, lim, seen \cup {anchors[i].shortcode},
                     Append(posts, shortcodePost(anchors[i])))

jsonPosts(anchors, lim) == shortcodeLoop(anchors, 1, lim, {}, <<>>)

\* ---- extractPostsFromJson on the text of the page: the vicinity
\* The page is drawn as a sequence of pieces of text: a "shortcode" match, an
\* "edge_liked_by" count written for the post `of`, or filler. A match takes
\* WindowBehind characters of the page, filler WindowAhead.
WindowBehind == 500    \* const start = Math.max(0, pos - 500)
WindowAhead == 3000    \* const end = Math.min(html.length, pos + 3000)
TextKeys == 1..2

Piece(kind, of, value) == [kind |-> kind, of |-> of, value |-> value]

Pieces ==
  { Piece("shortcode", k, 0) : k \in TextKeys }
  \cup { Piece("likes", k, v) : k \in TextKeys, v \in 0..1 }
  \cup { Piece("filler", 0, 0) }

WidthOf(piece) == IF piece.kind = "filler" THEN WindowAhead ELSE WindowBehind

\* match.index of piece i
RECURSIVE IndexOf(_, _)
IndexOf(pieces, i) ==
  IF i = 1 THEN 0 ELSE IndexOf(pieces, i - 1) + WidthOf(pieces[i - 1])

\* html.slice(start, end) holds the match of piece i
inVicinity(pieces, anchor, i) ==
  /\ IndexOf(pieces, i) >= IndexOf(pieces, anchor) - WindowBehind
  /\ IndexOf(pieces, i) < IndexOf(pieces, anchor) + WindowAhead

\* vicinity.match(/"edge_liked_by".../): the first match in the vicinity
vicinityMatch(pieces, anchor, kind) ==
  LET found == { i \in DOMAIN pieces :
                   pieces[i].kind = kind /\ inVicinity(pieces, anchor, i) }
  IN  IF found = {} THEN Null
      ELSE pieces[CHOOSE i \in found : \A j \in found : i <= j].value

\* the matches of shortcodePattern, each with what its vicinity gives
shortcodeMatches(pieces) ==
  LET at == SelectSeq([i \in DOMAIN pieces |-> i],
                      LAMBDA i : pieces[i].kind = "shortcode")
  IN  [n \in DOMAIN at |->
         ShortcodeAnchor(pieces[at[n]].of, vicinityMatch(pieces, at[n], "likes"),
                         Null, "absent")]

\* ---- extractPostsFromDesktopJson (facebook.ts)
\* The page is drawn as blocks of embedded JSON, each shorter than the
\* narrowest search window and further from its neighbours than the widest:
\* the window around an anchor is the anchor's block. A block holds at most
\* one "creation_time" and at most one "message":{"text": ...}, and the
\* reaction count, media flag and permalink "url" found beside them (url 0:
\* no permalink in the window).
Block(time, message, reactions, media, url) ==
  [time |-> time, message |-> message, reactions |-> reactions, media |-> media,
   url |-> url]

PlainBlocks ==
  { Block(t, m, Null, "absent", 0) : t \in {Null} \cup Dates, m \in {NoText} \cup Keys }
  \ { Block(Null, NoText, Null, "absent", 0) }

DetailedBlocks ==
  { Block(Today, 1, r, v, 0) : r \in {Null, 0, 1}, v \in {"absent", "video", "image"} }

\* Posts with a permalink: two permalinks, two caption prefixes, recent dates.
IdentifiedBlocks ==
  { Block(t, m, Null, "absent", u) :
      t \in { d \in Dates : d > YearAgo /\ ~Future(d) }, m \in 1..2, u \in 1..2 }

\* if (ageInDays > 365) continue
Stale(date) == date <= YearAgo

\* Method A: the "creation_time" anchors.
RECURSIVE creationTimeLoop(_, _, _, _, _)
creationTimeLoop(blocks, i, lim, seen, posts) ==
  IF i > Len(blocks) \/ ~moreWanted(posts, lim) THEN [posts |-> posts, seen |-> seen]
  ELSE LET b == blocks[i] IN
       IF b.time = Null \/ Stale(b.time) \/ b.message = NoText
            \/ alreadySeen(seen, b.message)
         THEN creationTimeLoop(blocks, i + 1, lim, seen, posts)
       ELSE creationTimeLoop(blocks, i + 1, lim, seen \cup {b.message},
              Append(posts, Post(b.url, b.message, b.reactions, Null, b.time,
                                 IF b.media = "absent" THEN NoMediaType ELSE b.media)))

\* Method B: the "message" anchors, dated by the "creation_time" of the block.
RECURSIVE messageLoop(_, _, _, _, _)
messageLoop(blocks, i, lim, seen, posts) ==
  IF i > Len(blocks) \/ ~moreWanted(posts, lim) THEN posts
  ELSE LET b == blocks[i] IN
       IF b.message = NoText \/ alreadySeen(seen, b.message)
         THEN messageLoop(blocks, i + 1, lim, seen, posts)
       ELSE messageLoop(blocks, i + 1, lim, seen \cup {b.message},
              Append(posts, Post(0, b.message, b.reactions, Null, b.time, NoMediaType)))

\* (a, b) => { if (!a.posted_at || !b.posted_at) return 0
\*             return b.posted_at.localeCompare(a.posted_at) }
comparePosts(a, b) ==
  IF a.posted_at = Null \/ b.posted_at = Null THEN 0
  ELSE IF b.posted_at < a.posted_at THEN -1
  ELSE IF b.posted_at > a.posted_at THEN 1 ELSE 0

\* Array.prototype.sort as the engine runs it on an array shorter than 64
\* (V8, third_party/v8/builtins/array-sort.tq): the leading run is counted,
\* reversed when strictly descending, and the rest is inserted by binary
\* insertion. With a comparator that is not a consistent comparator the
\* result is whatever these steps give.
RECURSIVE CountRun(_, _, _)
CountRun(s, idx, descending) ==
  IF idx > Len(s) THEN Len(s)
  ELSE LET order == comparePosts(s[idx], s[idx - 1]) IN
       IF (descending /\ order >= 0) \/ (~descending /\ order < 0) THEN idx - 1
       ELSE CountRun(s, idx + 1, descending)

Reverse(s) == [i \in 1..Len(s) |-> s[Len(s) + 1 - i]]

\* indices of the search are zero-based, as in the engine
RECURSIVE BinarySearch(_, _, _, _)
BinarySearch(s, pivot, left, right) ==
  IF left >= right THEN left
  ELSE LET mid == left + ((right - left) \div 2) IN
       IF comparePosts(pivot, s[mid + 1]) < 0
         THEN BinarySearch(s, pivot, left, mid)
         ELSE BinarySearch(s, pivot, mid + 1, right)

RECURSIVE BinaryInsertionSort(_, _)
BinaryInsertionSort(s, start) ==
  IF start >= Len(s) THEN s
  ELSE LET pivot == s[start + 1]
           left == BinarySearch(s, pivot, 0, start)
       IN  BinaryInsertionSort(
             SubSeq(s, 1, left) \o <<pivot>> \o SubSeq(s, left + 1, start)
               \o SubSeq(s, start + 2, Len(s)),
             start + 1)

\* posts.sort(...)
sortByDate(posts) ==
  IF Len(posts) < 2 THEN posts
  ELSE LET descending == comparePosts(posts[2], posts[1]) < 0
           run == CountRun(posts, 3, descending)
           made == IF descending
                     THEN Reverse(SubSeq(posts, 1, run)) \o SubSeq(posts, run + 1, Len(posts))
                     ELSE posts
       IN  BinaryInsertionSort(made, run)

\* Method A, Method B when A left room, the sort, posts.slice(0, limit).
desktopCandidates(blocks, lim) ==
  LET a == creationTimeLoop(blocks, 1, lim, {}, <<>>)
  IN  IF moreWanted(a.posts, lim) THEN messageLoop(blocks, 1, lim, a.seen, a.posts)
      ELSE a.posts

desktopJsonPosts(blocks, lim) == Take(sortByDate(desktopCandidates(blocks, lim)), lim)

\* ---- extractPostsFromMbasic (facebook.ts)
\* The anchors of the two patterns: story links, each with the text block
\* before it and the data-utime near it, and data-ft articles.
MbasicItem(kind, blockText, utime) ==
  [kind |-> kind, text |-> blockText, utime |-> utime]

MbasicItems ==
  { MbasicItem("link", x, t) : x \in {NoText} \cup Keys, t \in {Null} \cup Dates }
  \cup { MbasicItem("article", x, Null) : x \in {NoText} \cup Keys }

RECURSIVE storyLinkLoop(_, _, _, _, _)
storyLinkLoop(items, i, lim, seen, posts) ==
  IF i > Len(items) \/ ~moreWanted(posts, lim) THEN posts
  ELSE LET a == items[i] IN
       IF a.kind # "link" \/ a.text = NoText \/ alreadySeen(seen, a.text)
         THEN storyLinkLoop(items, i + 1, lim, seen, posts)
       ELSE storyLinkLoop(items, i + 1, lim, seen \cup {a.text},
              Append(posts, Post(i, a.text, Null, Null, a.utime, NoMediaType)))

RECURSIVE articleLoop(_, _, _, _, _)
articleLoop(items, i, lim, seen, posts) ==
  IF i > Len(items) \/ ~moreWanted(posts, lim) THEN posts
  ELSE LET a == items[i] IN
       IF a.kind # "article" \/ a.text = NoText \/ alreadySeen(seen, a.text)
         THEN articleLoop(items, i + 1, lim, seen, posts)
       ELSE articleLoop(items, i + 1, lim, seen \cup {a.text},
              Append(posts, Post(0, a.text, Null, Null, Null, NoMediaType)))

\* the story links, and the articles if (posts.length === 0)
mbasicPosts(items, lim) ==
  LET posts == storyLinkLoop(items, 1, lim, {}, <<>>)
  IN  IF Len(posts) = 0 THEN articleLoop(items, 1, lim, {}, <<>>) ELSE posts

\* ---- one run of one extractor
Extractors == {"restApi", "json", "jsonText", "desktop", "mbasic"}

DocsOf(e) ==
  CASE e = "restApi" -> SeqsUpTo(PlainEdges, MaxPosts) \cup { <<d>> : d \in DetailedEdges }
    [] e = "json" -> SeqsUpTo(PlainShortcodeAnchors, MaxPosts)
                       \cup { <<d>> : d \in DetailedShortcodeAnchors }
    [] e = "jsonText" -> SeqsUpTo(Pieces, MaxPieces)
    [] e = "desktop" -> SeqsUpTo(PlainBlocks, MaxBlocks) \cup { <<d>> : d \in DetailedBlocks }
                          \cup { <<a, b>> : a, b \in IdentifiedBlocks }
    [] e = "mbasic" -> SeqsUpTo(MbasicItems, MaxPosts)

InitExtract ==
  /\ CascadeIdle /\ MainIdle /\ HelperIdle /\ FlightIdle /\ BrowserIdle
  /\ extractor \in Extractors
  /\ doc \in DocsOf(extractor)
  /\ limit \in 0..MaxLimit
  /\ extracted = {}

Extract(e, posts) ==
  /\ extractor = e
  /\ extracted = {}
  /\ extracted' = {posts}
  /\ UNCHANGED <<extractor, doc, limit, cascadeVars, mainVars, helperVars, flightVars, browserVars>>

ExtractRestApi == Extract("restApi", restApiEdgePosts(doc, limit))
ExtractJson == Extract("json", jsonPosts(doc, limit))
ExtractJsonText == Extract("jsonText", jsonPosts(shortcodeMatches(doc), limit))
ExtractDesktop == Extract("desktop", desktopJsonPosts(doc, limit))
ExtractMbasic == Extract("mbasic", mbasicPosts(doc, limit))

NextExtract ==
  ExtractRestApi \/ ExtractJson \/ ExtractJsonText \/ ExtractDesktop \/ ExtractMbasic

SpecExtract == InitExtract /\ [][NextExtract]_vars

\* ---- the browser-context loop (src/unnamed/part_003:1-225)
\* The contexts: the shared igContext and fbContext, and the per-profile
\* context of the Instagram query of competitor n.
Context(name, comp) == [name |-> name, comp |-> comp]
SharedContexts == {Context("igContext", 0), Context("fbContext", 0)}

\* if (profileContext !== igContext) await profileContext.close(): the last
\* statement of the try block, not reached when scrapeInstagram or pushData
\* has thrown
closedAfterQuery(failed) == ~failed

InitBrowser ==
  /\ CascadeIdle /\ ExtractIdle /\ HelperIdle /\ FlightIdle
  /\ mainPc = "off" /\ calls = <<>> /\ dataset = <<>>
  /\ competitors \in CompetitorLists
  /\ compIndex = 1
  /\ browserPc = "instagram"
  /\ openContexts = SharedContexts
  /\ created = <<>>

\* The Instagram block of one competitor: a fresh context when a fresh proxy
\* was obtained, scrapeInstagram, pushData, the close; the catch block with
\* its own pushData.
BrowserInstagram ==
  /\ browserPc = "instagram"
  /\ IF competitors[compIndex].instagram = NoHandle
       THEN browserPc' = "facebook" /\ UNCHANGED <<openContexts, created>>
       ELSE \E fresh \in BOOLEAN, failed \in BOOLEAN, pushInCatch \in PushOutcomes :
              /\ created' = IF fresh THEN Append(created, compIndex) ELSE created
              /\ openContexts' =
                   IF fresh /\ ~closedAfterQuery(failed)
                     THEN openContexts \cup {Context("profileContext", compIndex)}
                     ELSE openContexts
              /\ browserPc' = IF failed /\ pushInCatch = "rejected"
                                THEN "crashed" ELSE "facebook"
  /\ UNCHANGED <<competitors, compIndex, cascadeVars, extractVars, helperVars>>
  /\ UNCHANGED <<mainPc, calls, dataset, flightVars>>

\* The Facebook block: scrapeFacebook(fbContext, ...), then the next
\* competitor or the clean-up.
BrowserFacebook ==
  /\ browserPc = "facebook"
  /\ \E crashed \in BOOLEAN :
       /\ crashed => competitors[compIndex].facebook # NoHandle
       /\ browserPc' = IF crashed THEN "crashed"
                        ELSE IF compIndex = Len(competitors) THEN "cleanup"
                        ELSE "instagram"
       /\ compIndex' = IF crashed THEN compIndex ELSE compIndex + 1
  /\ UNCHANGED <<competitors, openContexts, created, cascadeVars, extractVars, helperVars>>
  /\ UNCHANGED <<mainPc, calls, dataset, flightVars>>

\* igContext.close(); fbContext.close(); browser.close()
BrowserCleanUp ==
  /\ browserPc = "cleanup"
  /\ browserPc' = "exit"
  /\ openContexts' = {}
  /\ UNCHANGED <<competitors, compIndex, created, cascadeVars, extractVars, helperVars>>
  /\ UNCHANGED <<mainPc, calls, dataset, flightVars>>

NextBrowser == BrowserInstagram \/ BrowserFacebook \/ BrowserCleanUp

SpecBrowser == InitBrowser /\ [][NextBrowser]_vars

\* ------------------------------------------------------- the text helpers
\* A text is a sequence of characters.
Digits == {"0", "1", "5"}
Separators == {",", "."}
Suffixes == {"K", "k", "M", "m"}
Whitespace == {" "}
CountChars == Digits \cup Separators \cup {"K", "k", "M"} \cup Whitespace \cup {"x"}
NumeralChars == Digits \cup Separators \cup {"K", "M"}

DigitValue(c) == CASE c = "0" -> 0 [] c = "1" -> 1 [] c = "5" -> 5

\* A number the helper returns is kept as mantissa * 10^zeros, the mantissa
\* without trailing zeros: 5555M does not fit the integers of the checker.
RECURSIVE Count(_, _)
Count(mantissa, zeros) ==
  IF mantissa = 0 THEN [mantissa |-> 0, zeros |-> 0]
  ELSE IF mantissa % 10 = 0 THEN Count(mantissa \div 10, zeros + 1)
  ELSE [mantissa |-> mantissa, zeros |-> zeros]

NullCount == [mantissa |-> Null, zeros |-> 0]   \* return null

RECURSIVE Pow10(_)
Pow10(n) == IF n = 0 THEN 1 ELSE 10 * Pow10(n - 1)

RECURSIVE DigitsValue(_)
DigitsValue(s) ==
  IF s = <<>> THEN 0
  ELSE 10 * DigitsValue(SubSeq(s, 1, Len(s) - 1)) + DigitValue(s[Len(s)])

\* s.replace(/c/g, '') for the characters c of chars
removeAll(s, chars) == SelectSeq(s, LAMBDA c : c \notin chars)

\* The length of the longest prefix of s made of characters of chars.
RECURSIVE PrefixLen(_, _)
PrefixLen(s, chars) ==
  IF s = <<>> THEN 0
  ELSE IF s[1] \notin chars THEN 0
  ELSE 1 + PrefixLen(Tail(s), chars)

\* cleaned.match(/([\d,.]+)\s*([KkMm])?/): the leftmost run of digits and
\* separators, as long as it goes, and the suffix letter right after it
\* ({}: no match).
countMatch(cleaned) ==
  LET starts == { i \in DOMAIN cleaned : cleaned[i] \in Digits \cup Separators } IN
  IF starts = {} THEN {}
  ELSE LET first == CHOOSE i \in starts : \A j \in starts : i <= j
           rest == SubSeq(cleaned, first, Len(cleaned))
           n == PrefixLen(rest, Digits \cup Separators)
       IN  { [numStr |-> SubSeq(rest, 1, n),
              suffix |-> IF n < Len(rest) THEN
                           (IF rest[n + 1] \in Suffixes THEN rest[n + 1] ELSE "")
                         ELSE ""] }

\* /,\d{3}/.test(numStr), /\.\d{3}/.test(numStr)
hasGroup(numStr, sep) ==
  \E k \in 1..(Len(numStr) - 3) :
    numStr[k] = sep /\ \A d \in 1..3 : numStr[k + d] \in Digits

\* numStr.replace(',', '.'): the first comma only
replaceFirstComma(numStr) ==
  LET commas == { i \in DOMAIN numStr : numStr[i] = "," } IN
  IF commas = {} THEN numStr
  ELSE LET first == CHOOSE i \in commas : \A j \in commas : i <= j
       IN  [i \in DOMAIN numStr |-> IF i = first THEN "." ELSE numStr[i]]

\* if (/,\d{3}/.test(numStr)) ... else if (/\.\d{3}/.test(numStr)) ... else ...
normalizeSeparators(numStr) ==
  IF hasGroup(numStr, ",") THEN removeAll(numStr, {","})
  ELSE IF hasGroup(numStr, ".") THEN removeAll(numStr, {"."})
  ELSE replaceFirstComma(numStr)

\* parseFloat: the value of the longest prefix that is a decimal literal, as
\* digits / 10^decimals ({}: NaN).
parseFloat(s) ==
  LET intLen == PrefixLen(s, Digits)
      afterInt == SubSeq(s, intLen + 1, Len(s))
      fracLen == IF afterInt = <<>> THEN 0
                 ELSE IF afterInt[1] = "." THEN PrefixLen(Tail(afterInt), Digits)
                 ELSE 0
  IN  IF intLen + fracLen = 0 THEN {}
      ELSE { [digits |-> DigitsValue(SubSeq(s, 1, intLen)
                                       \o SubSeq(afterInt, 2, fracLen + 1)),
              decimals |-> fracLen] }

\* if (multiplier === 'K') num *= 1000; if (multiplier === 'M') num *= 1_000_000
\* return Math.round(num): halves round up. With the texts drawn here the
\* products are exact in floating point.
scaleAndRound(num, suffix) ==
  LET e == CASE suffix \in {"K", "k"} -> 3 [] suffix \in {"M", "m"} -> 6 [] OTHER -> 0
  IN  IF e >= num.decimals THEN Count(num.digits, e - num.decimals)
      ELSE LET unit == Pow10(num.decimals - e)
           IN  Count((2 * num.digits + unit) \div (2 * unit), 0)

\* parseCount of instagram.ts:418, facebook.ts:501, part_001:423
parseCount(s) ==
  LET m == countMatch(removeAll(s, Whitespace)) IN
  IF m = {} THEN NullCount
  ELSE LET found == CHOOSE x \in m : TRUE
           num == parseFloat(normalizeSeparators(found.numStr))
       IN  IF num = {} THEN NullCount
           ELSE scaleAndRound(CHOOSE x \in num : TRUE, found.suffix)

\* parseCount of part_000:296, facebook.ts:738:
\* parseFloat(multiplierMatch[1].replace(',', '.'))
parseCountLegacy(s) ==
  LET m == countMatch(removeAll(s, Whitespace)) IN
  IF m = {} THEN NullCount
  ELSE LET found == CHOOSE x \in m : TRUE
           num == parseFloat(replaceFirstComma(found.numStr))
       IN  IF num = {} THEN NullCount
           ELSE scaleAndRound(CHOOSE x \in num : TRUE, found.suffix)

\* ---- decodeHtmlEntities, decodeJsonEscapes
\* Here a text is a sequence of pieces: an ampersand, the rest of an entity
\* ("amp;" after "&" makes "&amp;"), a backslash, the rest of an escape, or a
\* plain character. The pieces are chosen so that an entity or escape can only
\* arise from an ampersand or backslash followed by a rest.
Nbsp == "U+00A0"
Backslash == "\\"
Quote == "\""

EntityPieces ==
  {"&", "#x26;", "#38;", "amp;", "lt;", "gt;", "quot;", "apos;", "nbsp;", Nbsp, "<", " "}

EscapePieces == {Backslash, "n", "r", "t", Quote, "/", "u005c", "u0041", "x"}

\* s.replace(/<first><second>/g, by): left to right, without overlap;
\* by = <<>> deletes the match.
RECURSIVE replacePairs(_, _, _, _)
replacePairs(s, first, second, by) ==
  IF Len(s) < 2 THEN s
  ELSE IF s[1] = first /\ s[2] = second
    THEN by \o replacePairs(SubSeq(s, 3, Len(s)), first, second, by)
  ELSE <<s[1]>> \o replacePairs(Tail(s), first, second, by)

\* s.replace(/[   ]/g, ' ')
replaceEach(s, piece, by) == [i \in DOMAIN s |-> IF s[i] = piece THEN by ELSE s[i]]

\* the chain of .replace calls, in the order of the code
decodeHtmlEntities(s) ==
  LET hex == replacePairs(s, "&", "#x26;", <<"&">>)
      dec == replacePairs(hex, "&", "#38;", <<"&">>)
      amp == replacePairs(dec, "&", "amp;", <<"&">>)
      lt == replacePairs(amp, "&", "lt;", <<"<">>)
      gt == replacePairs(lt, "&", "gt;", <<">">>)
      quot == replacePairs(gt, "&", "quot;", <<Quote>>)
      apos == replacePairs(quot, "&", "apos;", <<"'">>)
      nbsp == replacePairs(apos, "&", "nbsp;", <<" ">>)
  IN  replaceEach(nbsp, Nbsp, " ")

decodeJsonEscapes(s) ==
  LET n == replacePairs(s, Backslash, "n", <<" ">>)
      r == replacePairs(n, Backslash, "r", <<>>)
      t == replacePairs(r, Backslash, "t", <<" ">>)
      backslash == replacePairs(t, Backslash, Backslash, <<Backslash>>)
      quote == replacePairs(backslash, Backslash, Quote, <<Quote>>)
      slash == replacePairs(quote, Backslash, "/", <<"/">>)
      u5c == replacePairs(slash, Backslash, "u005c", <<Backslash>>)
  IN  replacePairs(u5c, Backslash, "u0041", <<"A">>)

\* ---- one call of one helper
Helpers == {"parseCount", "parseCountLegacy", "decodeHtmlEntities", "decodeJsonEscapes"}

TextsOf(h) ==
  CASE h = "decodeHtmlEntities" -> SeqsUpTo(EntityPieces, MaxText)
    [] h = "decodeJsonEscapes" -> SeqsUpTo(EscapePieces, MaxText)
    [] OTHER -> SeqsUpTo(CountChars, MaxText) \cup SeqsUpTo(NumeralChars, MaxNumeral)

InitText ==
  /\ CascadeIdle /\ MainIdle /\ ExtractIdle /\ FlightIdle /\ BrowserIdle
  /\ helper \in Helpers
  /\ text \in TextsOf(helper)
  /\ output = {}

Apply(h, result) ==
  /\ helper = h
  /\ output = {}
  /\ output' = {result}
  /\ UNCHANGED <<helper, text, cascadeVars, mainVars, extractVars, flightVars, browserVars>>

ParseCount == Apply("parseCount", parseCount(text))
ParseCountLegacy == Apply("parseCountLegacy", parseCountLegacy(text))
DecodeHtmlEntities == Apply("decodeHtmlEntities", decodeHtmlEntities(text))
DecodeJsonEscapes == Apply("decodeJsonEscapes", decodeJsonEscapes(text))

NextText == ParseCount \/ ParseCountLegacy \/ DecodeHtmlEntities \/ DecodeJsonEscapes

SpecText == InitText /\ [][NextText]_vars

\* ----------------------------------------------------------------- claims
Done == pc = "done"

HasField(r) ==
  r.followers # Null \/ r.following # Null \/ r.posts_count # Null \/ r.bio # Null
HasData(r) == HasField(r) \/ Len(r.recent_posts) > 0
Usable(result) == \E r \in result : HasData(r)
SameFields(r, s) ==
  /\ r.followers = s.followers /\ r.following = s.following
  /\ r.posts_count = s.posts_count /\ r.bio = s.bio

Attempts(strategy) == SelectSeq(invoked, LAMBDA a : a.strategy = strategy)
Invoked(strategy) == Len(Attempts(strategy)) > 0

\* C1: in every returned record, a non-null error comes with followers,
\* following, posts_count and bio all null and an empty post list.
C1_ErrorOnlyWithoutData ==
  \A r \in returned : r.error # NoError => ~HasData(r)

\* C2: when every strategy that ran yielded no profile field and no post, the
\* returned record has all fields null, no post, and a non-empty error string.
C2_ExhaustedGivesError ==
  (Done /\ ~thrown /\ ~Usable(apiResult \cup retryResult \cup webResult
                               \cup desktopResult \cup mbasicResult))
    => \E r \in returned : ~HasData(r) /\ r.error # NoError /\ r.error # ""

InDocumentOrder(posts, target) ==
  \A k \in DOMAIN posts : posts[k] = UrlBase(target) + k

C4_RichFirstResultReturnedUnchanged ==
  /\ (\E r \in desktopResult : Len(r.recent_posts) >= 2)
       => /\ returned = desktopResult
          /\ \A r \in returned : /\ r.error = NoError
                                 /\ Len(r.recent_posts) <= postsLimit
                                 /\ InDocumentOrder(r.recent_posts, "desktop")
  /\ (\E r \in apiResult : Len(r.recent_posts) >= 1)
       => /\ returned = apiResult
          /\ \A r \in returned : /\ r.error = NoError
                                 /\ Len(r.recent_posts) <= postsLimit
                                 /\ InDocumentOrder(r.recent_posts, "api")

C4_Witness ==
  /\ Done /\ variant = "ig" /\ postsLimit = 1
  /\ \E r \in returned : Len(r.recent_posts) = 1 /\ r.followers = ValueOf("api")
                         /\ r.bio = ValueOf("api") /\ r.error = NoError

\* C5: each scalar field of the returned record is the first non-null value
\* among the results of the strategies that ran, in priority order.
FirstNonNull(field) ==
  LET pick(result, rest) ==
        IF \E r \in result : r[field] # Null
          THEN (CHOOSE r \in result : TRUE)[field] ELSE rest
  IN  pick(desktopResult, pick(apiResult, pick(retryResult,
        pick(mbasicResult, pick(webResult, Null)))))

C5_FirstNonNullFieldWins ==
  (Done /\ ~thrown) =>
    \A r \in returned : \A f \in FieldNames : r[f] = FirstNonNull(f)

\* C6: first strategy nothing usable, second strategy profile fields only and
\* no posts: the returned record has exactly the second's fields, no post,
\* error null.
FieldsOnly(result) ==
  \E s \in result : HasField(s) /\ Len(s.recent_posts) = 0

C6_SecondStrategyFieldsCarried ==
  LET first == desktopResult \cup apiResult \cup retryResult
      second == mbasicResult \cup webResult
  IN  (Done /\ ~thrown /\ ~Usable(first) /\ FieldsOnly(second)) =>
        \E r \in returned : \E s \in second :
          SameFields(r, s) /\ r.recent_posts = <<>> /\ r.error = NoError

\* C7 as stated: the returned posts are the post list of the highest-priority
\* strategy whose post list is non-empty.
PostsOfResult(result) == (CHOOSE r \in result : TRUE).recent_posts
NonEmptyPosts(result) == \E r \in result : Len(r.recent_posts) > 0

FirstNonEmptyPosts ==
  LET pick(result, rest) == IF NonEmptyPosts(result) THEN PostsOfResult(result) ELSE rest
  IN  pick(desktopResult, pick(apiResult, pick(retryResult,
        pick(mbasicResult, pick(webResult, <<>>)))))

C7_PostsOfHighestPriorityStrategy ==
  (Done /\ ~thrown) => \A r \in returned : r.recent_posts = FirstNonEmptyPosts

\* C7 as amended: the returned posts are the whole post list of one strategy:
\* the first strategy's when it halts the cascade (Facebook desktop: two posts
\* or more; Instagram API: one or more), else the later strategy's when that
\* is non-empty, else the first strategy's own (empty, or one desktop post);
\* posts of two strategies are never mixed.
PostsOfHaltingStrategy ==
  IF \E r \in desktopResult : Len(r.recent_posts) >= 2 THEN PostsOfResult(desktopResult)
  ELSE IF NonEmptyPosts(apiResult) THEN PostsOfResult(apiResult)
  ELSE IF NonEmptyPosts(retryResult) THEN PostsOfResult(retryResult)
  ELSE IF NonEmptyPosts(mbasicResult) THEN PostsOfResult(mbasicResult)
  ELSE IF NonEmptyPosts(webResult) THEN PostsOfResult(webResult)
  ELSE IF desktopResult # {} THEN PostsOfResult(desktopResult)
  ELSE <<>>

C7_PostsOfOneStrategy ==
  (Done /\ ~thrown) => \A r \in returned : r.recent_posts = PostsOfHaltingStrategy

C7_Witness ==
  /\ Done /\ variant = "fb"
  /\ \E d \in desktopResult : Len(d.recent_posts) = 1
  /\ \E m \in mbasicResult : Len(m.recent_posts) = 2
  /\ \E r \in returned : r.recent_posts = PostsOf("mbasic", 2)

\* C8: a strategy whose attempt ended in HTTP 429 is attempted exactly twice,
\* and a strategy whose attempt ended otherwise exactly once.
NetworkStrategies == {"api", "web", "desktop", "mbasic"}

C8_RetryExactlyOnceOn429 ==
  Done => \A s \in NetworkStrategies :
    Invoked(s) =>
      Len(Attempts(s)) = IF Attempts(s)[1].status = StatusRateLimited THEN 2 ELSE 1

\* C9 as stated: the retry of a rate-limited attempt uses a proxy different
\* from the first attempt's, also when no fresh one could be obtained.
C9_RetryUsesDistinctIdentity ==
  Len(Attempts("api")) = 2 => Attempts("api")[2].proxy # Attempts("api")[1].proxy

\* C9 as amended: the retry asks for a fresh proxy URL and uses it for both of
\* its requests when one is obtained; when the proxy configuration throws or
\* gives none, the retry reuses the proxy URL of the first attempt.
C9_RetryUsesFreshIdentityWhenObtained ==
  Len(Attempts("api")) = 2 =>
    LET first == Attempts("api")[1]
        retry == Attempts("api")[2]
    IN  /\ proxyOutcome = {"fresh"} => retry.proxy # first.proxy
        /\ proxyOutcome # {"fresh"} => retry.proxy = first.proxy
        /\ first.status = StatusRateLimited
        /\ requests[3].proxy = retry.proxy /\ requests[4].proxy = retry.proxy

C9_Witness ==
  /\ Len(Attempts("api")) = 2 /\ proxyOutcome = {"fresh"}
  /\ Attempts("api")[2].proxy = FirstProxy + 1

\* C10: no exception leaves scrapeInstagram or scrapeFacebook.
C10_NeverThrows == ~thrown

\* The handles input.competitors names, in input order: Instagram before
\* Facebook within a competitor.
HandlesOf(comp) ==
  (IF comp.instagram # NoHandle
     THEN <<[name |-> comp.name, platform |-> "instagram"]>> ELSE <<>>)
  \o (IF comp.facebook # NoHandle
        THEN <<[name |-> comp.name, platform |-> "facebook"]>> ELSE <<>>)

RECURSIVE HandlesUpTo(_)
HandlesUpTo(n) ==
  IF n = 0 THEN <<>> ELSE HandlesUpTo(n - 1) \o HandlesOf(competitors[n])

IsPrefix(s, t) == Len(s) <= Len(t) /\ SubSeq(t, 1, Len(s)) = s

\* C11: for every handle the loop has dealt with, the dataset holds exactly
\* one item, in input order: the scrape result with the job metadata, or the
\* all-null item with an error string when the scrape call threw; at the end
\* of the run every handle of the input has its item.
C11_OneRecordPerHandle ==
  /\ Len(dataset) = Len(calls)
  /\ \A i \in DOMAIN dataset :
       /\ dataset[i].name = calls[i].name
       /\ dataset[i].platform = calls[i].platform
       /\ IF calls[i].threw
            THEN ~HasData(dataset[i]) /\ dataset[i].error # NoError
            ELSE /\ SameFields(dataset[i], calls[i].result)
                 /\ dataset[i].recent_posts = calls[i].result.recent_posts
                 /\ dataset[i].error = calls[i].result.error
  /\ IsPrefix([i \in DOMAIN calls |->
                 [name |-> calls[i].name, platform |-> calls[i].platform]],
              HandlesUpTo(Len(competitors)))
  /\ mainPc = "exit" => Len(dataset) = Len(HandlesUpTo(Len(competitors)))
  /\ mainPc # "crashed"

\* C12: when the bootstrap fetch fails or yields no cookie, the REST API
\* request is still made (without session credentials): every finished
\* Instagram query has attempted the API strategy.
C12_ApiRequestedWithoutSession ==
  (Done /\ variant \in {"ig", "igRetry"}) =>
    /\ Invoked("api")
    /\ \E i \in DOMAIN requests : requests[i].target = "api"

\* C13: a login page is not usable: when every response of a finished query
\* was a login page, the returned record has no profile field and no post,
\* and its error is not null; and no field of a returned record is a value
\* read from a login page.
AllLoginWalled ==
  invoked # <<>> /\ \A i \in DOMAIN invoked : invoked[i].loginWall

TargetOf(strategy) ==
  CASE strategy = "api" -> "api" [] strategy = "desktop" -> "desktop"
    [] strategy = "mbasic" -> "mbasic" [] OTHER -> "page"

C13_LoginWallNotUsable ==
  /\ (Done /\ ~thrown /\ AllLoginWalled) =>
       \A r \in returned : ~HasData(r) /\ r.error # NoError
  /\ \A r \in returned : \A i \in DOMAIN invoked : \A f \in FieldNames :
       invoked[i].loginWall => r[f] # ValueOf(TargetOf(invoked[i].strategy))

Extracted == CHOOSE posts \in extracted : TRUE
Ran == extracted # {}

\* C14: the number of posts is at most the limit, for every limit >= 0 and
\* every payload, in the post list each extractor returns (the post list of a
\* returned record is the list of one extractor, whole).
C14_AtMostPostLimit ==
  Ran => Len(Extracted) <= limit

C14_Witness ==
  /\ Ran /\ extractor = "json" /\ limit = 1
  /\ Len(doc) = 2 /\ doc[1].shortcode # doc[2].shortcode
  /\ Len(Extracted) = 1

\* C15: the posts an extractor returns are newest-first: of two posts that
\* both carry a date, the one with the later date is not after the other.
NewestFirst(posts) ==
  \A i, j \in DOMAIN posts :
    (i < j /\ posts[i].posted_at # Null /\ posts[j].posted_at # Null)
      => posts[i].posted_at >= posts[j].posted_at

C15_NewestFirst == Ran => NewestFirst(Extracted)

\* What the payload showed beside the single anchor of a one-anchor document:
\* the like/reaction count (Null: none seen) and the media flag.
ObservedLikes(e, item) ==
  CASE e = "desktop" -> item.reactions [] e = "mbasic" -> Null
    [] e = "jsonText" -> Null [] OTHER -> item.likes

ObservedMedia(e, item) ==
  CASE e = "restApi" -> item.is_video [] e = "json" -> item.isVideo
    [] e = "desktop" -> item.media [] OTHER -> "absent"

\* C16: a post field is populated only when observed, and absent is distinct
\* from zero: the like count is the observed count (0 stays 0) or null when
\* none was seen, and media_type is null when no media flag was seen.
C16_OnlyObservedFieldsPopulated ==
  (Ran /\ Len(doc) = 1 /\ Len(Extracted) = 1) =>
    /\ Extracted[1].likes = ObservedLikes(extractor, doc[1])
    /\ ObservedMedia(extractor, doc[1]) = "absent"
         => Extracted[1].media_type = NoMediaType

\* C17: every scrape call eventually returns a record.
C17_EveryCallReturns == <>(returned # {})

\* Every candidate post of the page: what Method A and Method B yield when
\* the limit does not cut them short.
AllCandidates == desktopCandidates(doc, Len(doc) + 1)

Captions(posts) == { posts[i].caption_snippet : i \in DOMAIN posts }

\* C18: when the page holds more than limit distinct candidate posts, the
\* desktop extractor returns the limit most recent of all candidates: no
\* dated candidate left out is later than a dated post returned, and limit
\* posts are returned.
C18_MostRecentOfAllCandidates ==
  (Ran /\ extractor = "desktop" /\ Len(AllCandidates) > limit) =>
    /\ Len(Extracted) = limit
    /\ \A i \in DOMAIN Extracted : \A j \in DOMAIN AllCandidates :
         ( /\ AllCandidates[j].caption_snippet \notin Captions(Extracted)
           /\ Extracted[i].posted_at # Null
           /\ AllCandidates[j].posted_at # Null )
           => Extracted[i].posted_at >= AllCandidates[j].posted_at

\* The place of the post with a given caption (captions are distinct after
\* the deduplication).
PlaceOf(caption, posts) ==
  CHOOSE i \in DOMAIN posts : posts[i].caption_snippet = caption

KeepsOrder(a, b, posts) ==
  PlaceOf(a.caption_snippet, posts) < PlaceOf(b.caption_snippet, posts)

\* C19: after the sort of a list that mixes dated and undated posts, every
\* two dated posts are in date-descending order, dated posts of equal date
\* keep their input order, and undated posts keep their input order.
C19_RankingOfMixedList ==
  (Ran /\ extractor = "desktop") =>
    LET input == desktopCandidates(doc, limit) IN
    /\ Captions(Extracted) = Captions(input)
    /\ NewestFirst(Extracted)
    /\ \A i, j \in DOMAIN input :
         (i < j /\ input[i].posted_at = input[j].posted_at)
           => KeepsOrder(input[i], input[j], Extracted)

\* The anchor values of a document, and the distinct ones in order of first
\* occurrence.
AnchorValues ==
  [i \in DOMAIN doc |-> IF extractor = "json" THEN doc[i].shortcode ELSE doc[i].message]

RECURSIVE FirstOccurrences(_)
FirstOccurrences(values) ==
  IF values = <<>> THEN <<>>
  ELSE LET front == FirstOccurrences(SubSeq(values, 1, Len(values) - 1))
           last == values[Len(values)]
       IN  IF \E i \in DOMAIN front : front[i] = last THEN front
           ELSE Append(front, last)

\* The value a record was made for: the shortcode in its url, or its caption.
ValuesOf(posts) ==
  [i \in DOMAIN posts |->
     IF extractor = "json" THEN posts[i].url ELSE posts[i].caption_snippet]

\* A document of well-formed anchors only: every shortcode anchor is one; a
\* desktop block is one when it has a creation_time within the last 365 days
\* and a message.
WellFormedAnchors ==
  \/ extractor = "json"
  \/ /\ extractor = "desktop"
     /\ \A i \in DOMAIN doc :
          /\ doc[i].time # Null /\ ~Stale(doc[i].time) /\ ~Future(doc[i].time)
          /\ doc[i].message # NoText

Wanted == Take(FirstOccurrences(AnchorValues), limit)

Identified(i) ==
  /\ doc[i].url # 0 /\ doc[i].message # NoText
  /\ doc[i].time # Null /\ ~Stale(doc[i].time)

\* C21: a post found by both anchor methods of extractPostsFromDesktopJson
\* is returned once, and the dedup key is the post's identifier when it has
\* one: two posts of one page with different permalinks are both returned
\* (the limit leaving room for every post of the page).
C21_DistinctIdentifiersNotCollapsed ==
  (Ran /\ extractor = "desktop" /\ limit >= Len(doc)) =>
    /\ Len(Extracted) <= Cardinality({ i \in DOMAIN doc : doc[i].message # NoText })
    /\ \A i, j \in DOMAIN doc :
         (Identified(i) /\ Identified(j) /\ doc[i].url # doc[j].url)
           => \E p, q \in DOMAIN Extracted :
                /\ p # q
                /\ Extracted[p].url = doc[i].url
                /\ Extracted[q].url = doc[j].url

\* The first "shortcode" match of a post in the page: the anchor of its record.
AnchorOf(shortcode) ==
  CHOOSE i \in DOMAIN doc :
    /\ doc[i].kind = "shortcode" /\ doc[i].of = shortcode
    /\ \A j \in 1..(i - 1) : ~(doc[j].kind = "shortcode" /\ doc[j].of = shortcode)

\* The like counts the page holds for a post within the vicinity of its anchor.
OwnLikes(shortcode) ==
  { doc[i].value : i \in { j \in DOMAIN doc :
      /\ doc[j].kind = "likes" /\ doc[j].of = shortcode
      /\ inVicinity(doc, AnchorOf(shortcode), j) } }

\* C22: every secondary field of a record comes from the window around the
\* record's own anchor and never from text of another record: the like count
\* of a record of extractPostsFromJson is a count the page holds for that
\* post inside the window, and is null when the window holds none for it,
\* also when the posts of the page are closer together than the window.
C22_FieldsFromOwnRecordOnly ==
  (Ran /\ extractor = "jsonText") =>
    \A p \in DOMAIN Extracted :
      IF OwnLikes(Extracted[p].url) = {} THEN Extracted[p].likes = Null
      ELSE Extracted[p].likes \in OwnLikes(Extracted[p].url)

\* C23: a timestamp more than 365 days old or in the future is unreliable
\* for most-recent surfacing: the post an extractor returns first, as the
\* newest, never carries such a date, whichever anchor method found it.
C23_UnreliableDateNeverNewest ==
  (Ran /\ extractor \in {"json", "desktop"} /\ Len(Extracted) > 0) =>
    \/ Extracted[1].posted_at = Null
    \/ ~Stale(Extracted[1].posted_at) /\ ~Future(Extracted[1].posted_at)

Output == CHOOSE r \in output : TRUE
Called == output # {}

\* A numeral: digits and separators with at least one digit, then at most one
\* suffix letter, and nothing else.
NumStrOf(s) == SubSeq(s, 1, PrefixLen(s, Digits \cup Separators))
SuffixOf(s) == IF Len(NumStrOf(s)) < Len(s) THEN s[Len(s)] ELSE ""

IsNumeral(s) ==
  /\ \E i \in DOMAIN NumStrOf(s) : s[i] \in Digits
  /\ \/ Len(NumStrOf(s)) = Len(s)
     \/ Len(NumStrOf(s)) = Len(s) - 1 /\ s[Len(s)] \in Suffixes

\* The separators of a numeral as the claim reads them: a thousands separator
\* is followed by exactly three digits and then the end or another separator;
\* every other separator is the decimal point.
ThousandsAt(numStr, k) ==
  /\ numStr[k] \in Separators
  /\ k + 3 <= Len(numStr)
  /\ \A d \in 1..3 : numStr[k + d] \in Digits
  /\ k + 3 < Len(numStr) => numStr[k + 4] \in Separators

DecimalPoints(numStr) ==
  { k \in DOMAIN numStr : numStr[k] \in Separators /\ ~ThousandsAt(numStr, k) }

\* The numerals with one reading: at most one decimal point, after every
\* thousands separator.
OneReading(s) ==
  /\ IsNumeral(s)
  /\ Cardinality(DecimalPoints(NumStrOf(s))) <= 1
  /\ \A k \in DecimalPoints(NumStrOf(s)) : \A j \in DOMAIN NumStrOf(s) :
       j > k => NumStrOf(s)[j] \in Digits

\* The number a numeral with one reading stands for, times its suffix, rounded.
ReadCount(s) ==
  LET numStr == NumStrOf(s)
      point == DecimalPoints(numStr)
      decimals == IF point = {} THEN 0 ELSE Len(numStr) - (CHOOSE k \in point : TRUE)
  IN  scaleAndRound([digits |-> DigitsValue(removeAll(numStr, Separators)),
                     decimals |-> decimals], SuffixOf(s))

\* C24: parseCount takes a comma or period for a thousands separator only
\* when exactly three digits and then the end or another separator follow it,
\* and for the decimal point otherwise; the number is multiplied by 1,000 for
\* K and 1,000,000 for M in either case of the letter, and rounded.
C24_ThousandsOnlyBeforeExactlyThreeDigits ==
  (Called /\ helper = "parseCount" /\ OneReading(text)) => Output = ReadCount(text)

\* The supported renderings of an integer: plain digits; thousands grouped by
\* commas or by periods; one to three digits, a comma or period and one or
\* two decimals, or no decimals, before a K or M. None starts with a zero
\* followed by a digit.
NoLeadingZero(s) == Len(s) > 1 => ~(s[1] = "0" /\ s[2] \in Digits)

PlainRendering(s) ==
  /\ s # <<>> /\ \A i \in DOMAIN s : s[i] \in Digits
  /\ NoLeadingZero(s)

GroupedRendering(s) ==
  \E sep \in Separators : \E lead \in 1..3 :
    /\ Len(s) > lead /\ (Len(s) - lead) % 4 = 0
    /\ s[1] # "0"
    /\ \A i \in DOMAIN s :
         IF i > lead /\ (i - lead) % 4 = 1 THEN s[i] = sep ELSE s[i] \in Digits

SuffixedRendering(s) ==
  /\ Len(s) >= 2 /\ s[Len(s)] \in Suffixes
  /\ LET numStr == SubSeq(s, 1, Len(s) - 1) IN
     \/ PlainRendering(numStr) /\ Len(numStr) <= 3
     \/ \E lead \in 1..3 : \E decimals \in 1..2 :
          /\ Len(numStr) = lead + 1 + decimals
          /\ PlainRendering(SubSeq(numStr, 1, lead))
          /\ numStr[lead + 1] \in Separators
          /\ \A i \in (lead + 2)..Len(numStr) : numStr[i] \in Digits

Rendering(s) == PlainRendering(s) \/ GroupedRendering(s) \/ SuffixedRendering(s)

\* C25: for every integer and every supported rendering of it, parseCount of
\* the rendering is the integer the rendering stands for; this for each
\* parseCount of the repository.
C25_RenderingsRoundTrip ==
  (Called /\ helper \in {"parseCount", "parseCountLegacy"} /\ Rendering(text))
    => Output = ReadCount(text)

\* The same for the parseCount of instagram.ts:418 alone.
C25_CurrentRoundTrip ==
  (Called /\ helper = "parseCount" /\ Rendering(text)) => Output = ReadCount(text)

\* A text that is not a well-formed count: without its whitespace it is not a
\* numeral (no digit, or a character that is no digit, separator or final
\* suffix), or it has several decimal points.
Malformed(s) ==
  LET cleaned == removeAll(s, Whitespace) IN
  \/ ~IsNumeral(cleaned)
  \/ Cardinality(DecimalPoints(NumStrOf(cleaned))) > 1

\* C26: parseCount returns null for every text that is not a well-formed
\* count: no digits, letters mixed with digits, several decimal points,
\* separators only.
C26_NullOnMalformedText ==
  (Called /\ helper = "parseCount" /\ Malformed(text)) => Output = NullCount

\* C27: text normalization is idempotent: decodeHtmlEntities applied to its
\* own output returns that output unchanged, and so does decodeJsonEscapes.
C27_DecodingIdempotent ==
  /\ (Called /\ helper = "decodeHtmlEntities") => decodeHtmlEntities(Output) = Output
  /\ (Called /\ helper = "decodeJsonEscapes") => decodeJsonEscapes(Output) = Output

\* The place of a fetch in a query's priority order.
RankOf(target) ==
  CASE target = "page" -> 1 [] target = "api" -> 2
    [] target = "desktop" -> 3 [] target = "mbasic" -> 4

\* C28: at no moment are two fetches in flight; the queries run one after
\* another in input order, and within a query a strategy's fetch is started
\* only after the fetches of the strategies before it have settled, in
\* priority order.
C28_OneRequestInFlight ==
  /\ Cardinality(inFlight) <= 1
  /\ \A i, j \in DOMAIN sent :
       i < j => \/ sent[i].comp < sent[j].comp
                \/ /\ sent[i].comp = sent[j].comp
                   /\ RankOf(sent[i].target) < RankOf(sent[j].target)
  /\ \A f \in inFlight : f = sent[Len(sent)]

C28_Witness ==
  /\ Len(sent) >= 4
  /\ inFlight = {Fetch(2, "mbasic")}
  /\ sent[1] = Fetch(1, "page") /\ sent[2] = Fetch(1, "api")

\* C29: scrapeInstagram of instagram.ts makes at most two fetches per query,
\* the profile page first and the REST API second; the REST API is fetched
\* only after bootstrapSession has returned (with cookies), and extractFromHtml
\* works on the page bootstrapSession read, with no fetch of its own.
C29_BootstrapThenApiAtMostTwo ==
  (variant = "ig" /\ pc \notin {"off", "bootstrap"}) =>
    /\ Len(requests) \in 1..2
    /\ requests[1].target = "page"
    /\ Len(requests) = 2 => requests[2].target = "api" /\ cookies # ""
    /\ Len(requests) = 1 + Len(Attempts("api"))
    /\ Invoked("html") => html # {}

C29_Witness ==
  /\ variant = "ig" /\ Done
  /\ Len(requests) = 2 /\ Invoked("api") /\ Invoked("html")
  /\ returned # {}

\* C30: in the browser-context loop every per-profile context created for an
\* Instagram query is closed before the next query starts, on every path,
\* also when the scrape call or the push of its record throws; and the shared
\* Instagram context is not closed before the loop has ended.
C30_FreshContextClosedOnEveryPath ==
  browserPc \in {"instagram", "facebook", "cleanup"} =>
    /\ openContexts \subseteq SharedContexts
    /\ Context("igContext", 0) \in openContexts

====
